---- MODULE Spec2Model ----
(***************************************************************************)
(* Model of tic_tac_toe/SimpleNNQPlayerTF2.py: the NNQPlayerTF2 agent, its *)
(* four per-episode logs, the QNetwork wrapper it owns and the Board it    *)
(* plays on.                                                               *)
(*                                                                         *)
(* Numbers.  Q-values, rewards and probabilities are floats in the code.   *)
(* Here they are fixed-point integers in units of 1/Scale, so 1.0 is 100   *)
(* and the default reward_discount 0.95 is 95.                             *)
(*                                                                         *)
(* Indices.  Actions and log positions are 0-based as in the code; TLA+    *)
(* sequences are 1-based, so element i of a Python list is seq[i + 1].     *)
(***************************************************************************)
EXTENDS Integers, Sequences, FiniteSets, TLC

\* ------------------------------------------------------------------ bounds
\* Number of cells of the board (BOARD_SIZE of tic_tac_toe.Board).
BOARD_SIZE == 3
\* Largest number of successful final_result calls between two new_game calls.
MaxFinals == 2
\* The weights are abstracted to the number of fit calls so far, modulo this.
WeightEpochs == 2

\* --------------------------------------------------------------- constants
\* The board is modelled as one row of BOARD_SIZE cells, on which this many
\* adjacent equal marks win.
WIN_LENGTH == 2
Scale == 100
win_value == 100
draw_value == 0
loss_value == -100

\* Settings of reward_discount the constructor is called with (default 0.95).
Discounts == {95}
\* Q-values the network's output layer produces for one action.
QVals == {0, 100}

EMPTY == "EMPTY"
NAUGHT == "NAUGHT"
CROSS == "CROSS"
None == "None"

NOT_FINISHED == "NOT_FINISHED"
NAUGHT_WIN == "NAUGHT_WIN"
CROSS_WIN == "CROSS_WIN"
DRAW == "DRAW"

Sides == {CROSS, NAUGHT}
GameResult == {NOT_FINISHED, NAUGHT_WIN, CROSS_WIN, DRAW}
Actions == 0 .. (BOARD_SIZE - 1)

VARIABLES
    \* NNQPlayerTF2 fields
    side, board_position_log, action_log, next_max_log, values_log,
    training, reward_discount,
    \* QNetwork: the model's weights, abstracted to an epoch counter
    weights,
    \* the Board the agent plays on
    board,
    \* the last call made on the agent: its name, argument, whether it
    \* raised, and what it returned
    op, arg, raised, ret,
    \* locals of the last move call: what predict returned, and probs after
    \* the masking loop
    nn_probs, nn_qvalues, probs,
    \* calls the last operation made on its collaborators
    fit_calls, board_calls,
    \* names of the successful agent calls since the last new_game
    episode

vars == <<side, board_position_log, action_log, next_max_log, values_log,
          training, reward_discount, weights, board, op, arg, raised, ret,
          nn_probs, nn_qvalues, probs, fit_calls, board_calls, episode>>

agent_logs == <<board_position_log, action_log, next_max_log, values_log>>
agent_params == <<training, reward_discount>>
move_locals == <<nn_probs, nn_qvalues, probs>>

\* ----------------------------------------------------------------- helpers
RECURSIVE SumSeq(_)
SumSeq(s) == IF s = <<>> THEN 0 ELSE Head(s) + SumSeq(Tail(s))

MaxOf(S) == CHOOSE x \in S : \A y \in S : y <= x

Count(s, x) == Cardinality({i \in 1 .. Len(s) : s[i] = x})

\* Fixed-point product of two numbers in units of 1/Scale.
Mul(a, b) == (a * b) \div Scale

\* ------------------------------------------------------------------- Board
EmptyBoard == [i \in 1 .. BOARD_SIZE |-> EMPTY]

other_side(s) == IF s = CROSS THEN NAUGHT ELSE CROSS

is_legal(state, a) == state[a + 1] = EMPTY

HasLegal(state) == \E a \in Actions : is_legal(state, a)

check_win(state) ==
    \E i \in 1 .. (BOARD_SIZE - WIN_LENGTH + 1) :
        /\ state[i] # EMPTY
        /\ \A k \in 0 .. (WIN_LENGTH - 1) : state[i + k] = state[i]

\* The game is over: a side has won or no cell is left.
GameOver(state) == check_win(state) \/ ~HasLegal(state)

\* The side whose turn it is; CROSS starts.
ToMove(state) == IF Count(state, CROSS) = Count(state, NAUGHT) THEN CROSS ELSE NAUGHT

\* State of the board after board.move(a, s).
BoardAfter(state, a, s) == [state EXCEPT ![a + 1] = s]

\* The (result, finished) part of what board.move(a, s) returns.
BoardResult(state, a, s) ==
    LET after == BoardAfter(state, a, s) IN
    IF check_win(after)
    THEN <<IF s = CROSS THEN CROSS_WIN ELSE NAUGHT_WIN, TRUE>>
    ELSE IF ~HasLegal(after) THEN <<DRAW, TRUE>>
    ELSE <<NOT_FINISHED, FALSE>>

\* ---------------------------------------------------------------- QNetwork
\* exp(-k) in units of 1/Scale, for k = 0, 1, 2, ...
ExpNeg(k) ==
    CASE k = 0 -> 100
      [] k = 1 -> 37
      [] k = 2 -> 14
      [] k = 3 -> 5
      [] k = 4 -> 2
      [] k = 5 -> 1
      [] OTHER -> 0

\* The Softmax layer: the normalised exponential of the Q-values, over all
\* actions.
Softmax(q) ==
    LET m == MaxOf({q[i] : i \in 1 .. Len(q)})
        e == [i \in 1 .. Len(q) |-> ExpNeg((m - q[i]) \div Scale)]
        total == SumSeq(e)
    IN  [i \in 1 .. Len(q) |-> (e[i] * Scale) \div total]

\* Q-vectors the output layer can produce.
QVectors == [1 .. BOARD_SIZE -> QVals]

\* ------------------------------------------------------------ NNQPlayerTF2
\* Mutant: the second block marks every cell that is not the agent's own.
board_state_to_nn_input_NotOwn(state, s) ==
    [i \in 1 .. (3 * Len(state)) |->
        IF i <= Len(state)
        THEN (IF state[i] = s THEN 1 ELSE 0)
        ELSE IF i <= 2 * Len(state)
        THEN (IF state[i - Len(state)] # s THEN 1 ELSE 0)
        ELSE (IF state[i - 2 * Len(state)] = EMPTY THEN 1 ELSE 0)]

board_state_to_nn_input(state, s) ==
    [i \in 1 .. (3 * Len(state)) |->
        IF i <= Len(state)
        THEN (IF state[i] = s THEN 1 ELSE 0)
        ELSE IF i <= 2 * Len(state)
        THEN (IF state[i - Len(state)] = other_side(s) THEN 1 ELSE 0)
        ELSE (IF state[i - 2 * Len(state)] = EMPTY THEN 1 ELSE 0)]

\* Mutant: illegal actions are masked with 0, not -1.
MaskIllegal_Zero(p, state) ==
    [i \in 1 .. Len(p) |-> IF is_legal(state, i - 1) THEN p[i] ELSE 0]

\* Mutant: the masking loop is left out.
MaskIllegal_Skipped(p, state) == p

\* The masking loop of move: probs[index] = -1 where the board reports the
\* action illegal.
MaskIllegal(p, state) ==
    [i \in 1 .. Len(p) |-> IF is_legal(state, i - 1) THEN p[i] ELSE -1]

\* Mutant: the last index attaining the maximum.
argmax_Last(p) ==
    LET m == MaxOf({p[i] : i \in 1 .. Len(p)})
    IN  (CHOOSE i \in 1 .. Len(p) :
            /\ p[i] = m
            /\ \A j \in (i + 1) .. Len(p) : p[j] # m) - 1

\* np.argmax: the first index attaining the maximum.
argmax(p) ==
    LET m == MaxOf({p[i] : i \in 1 .. Len(p)})
    IN  (CHOOSE i \in 1 .. Len(p) :
            /\ p[i] = m
            /\ \A j \in 1 .. (i - 1) : p[j] # m) - 1

\* Mutant: the chain of conditions has no failing branch.
RaisesValueError_Never(result, s) == FALSE

\* The ValueError branch of final_result.
RaisesValueError(result, s) ==
    ~ \/ (result = NAUGHT_WIN /\ s = NAUGHT) \/ (result = CROSS_WIN /\ s = CROSS)
      \/ (result = NAUGHT_WIN /\ s = CROSS) \/ (result = CROSS_WIN /\ s = NAUGHT)
      \/ result = DRAW

\* Mutant: the reward ignores which side the agent plays.
Reward_IgnoresSide(result, s) ==
    IF result = CROSS_WIN THEN win_value
    ELSE IF result = NAUGHT_WIN THEN loss_value
    ELSE draw_value

\* The reward final_result computes from the game outcome.
Reward(result, s) ==
    IF (result = NAUGHT_WIN /\ s = NAUGHT) \/ (result = CROSS_WIN /\ s = CROSS)
    THEN win_value
    ELSE IF (result = NAUGHT_WIN /\ s = CROSS) \/ (result = CROSS_WIN /\ s = NAUGHT)
    THEN loss_value
    ELSE draw_value

\* Mutant: move reports the game as not finished whatever the board says.
move_returns_NotFinished(r) == <<r[1], FALSE>>

\* What move returns, given the (result, finished) part of what board.move
\* returned.
move_returns(r) == <<r[1], r[2]>>

\* Mutant: the bootstrapped value is the Q-value of the previous action.
NextMaxAfterMove_PrevAction(nlog, alog, q, m) ==
    IF Len(alog) > 0 THEN Append(nlog, q[alog[Len(alog)] + 1]) ELSE nlog

\* Mutant: the bootstrapped value is the largest Q-value of the step.
NextMaxAfterMove_MaxQ(nlog, alog, q, m) ==
    IF Len(alog) > 0 THEN Append(nlog, MaxOf({q[i] : i \in 1 .. Len(q)})) ELSE nlog

\* Mutant: the first move of a game appends a bootstrapped value too.
NextMaxAfterMove_Always(nlog, alog, q, m) == Append(nlog, q[m + 1])

\* The append to next_max_log in move: skipped on the first move of a game.
NextMaxAfterMove(nlog, alog, q, m) ==
    IF Len(alog) > 0 THEN Append(nlog, q[m + 1]) ELSE nlog

\* Mutant: the batch leaves out the last snapshot.
nn_input_batch_DropsLast(bplog, s) ==
    [k \in 1 .. (Len(bplog) - 1) |-> board_state_to_nn_input(bplog[k], s)]

\* The feature vectors final_result passes to fit.
nn_input_batch(bplog, s) ==
    [k \in 1 .. Len(bplog) |-> board_state_to_nn_input(bplog[k], s)]

\* Mutant: the optimizer runs whatever the training flag says.
runs_optimizer_Always(tr) == TRUE

\* final_result runs the optimizer if the agent is in training mode.
runs_optimizer(tr) == tr

\* QNetwork.fit: one training pass changes the weights.
fit(w) == (w + 1) % WeightEpochs

\* Mutant: the target is the next-state value without the discount.
TargetAt_Undiscounted(vlog, alog, nlog, discount, i) ==
    [vlog[i + 1] EXCEPT ![alog[i + 1] + 1] = nlog[i + 1]]

\* The target calculate_targets builds for step i.
TargetAt(vlog, alog, nlog, discount, i) ==
    [vlog[i + 1] EXCEPT ![alog[i + 1] + 1] = Mul(discount, nlog[i + 1])]

calculate_targets(vlog, alog, nlog, discount) ==
    [k \in 1 .. Len(alog) |-> TargetAt(vlog, alog, nlog, discount, k - 1)]

\* Mutant: calculate_targets writes the targets into the logged Q-vectors,
\* target = self.values_log[i] without the copy.
values_log_after_targets_NoCopy(vlog, alog, nlog, discount) ==
    [k \in 1 .. Len(vlog) |->
        IF k <= Len(alog) THEN TargetAt(vlog, alog, nlog, discount, k - 1) ELSE vlog[k]]

\* values_log once calculate_targets has run: every target is written into
\* a copy, np.copy(self.values_log[i]), so the logged Q-vectors stay.
values_log_after_targets(vlog, alog, nlog, discount) == vlog

\* Mutant: the log holds board.state itself, not a copy, so every entry
\* shows the board as it is now.
snapshots_after_board_change_Aliased(bplog, state) ==
    [k \in 1 .. Len(bplog) |-> state]

\* board_position_log once the board has changed to state: the entries are
\* copies, board.state.copy(), so they stay as they were logged.
snapshots_after_board_change(bplog, state) == bplog

\* Mutant: the reward is appended twice.
NextMaxAfterFinal_Twice(nlog, reward) == Append(Append(nlog, reward), reward)

\* The append to next_max_log in final_result.
NextMaxAfterFinal(nlog, reward) == Append(nlog, reward)

\* -------------------------------------------------------------------- Init
Init ==
    /\ side = None
    /\ board_position_log = <<>>
    /\ action_log = <<>>
    /\ next_max_log = <<>>
    /\ values_log = <<>>
    /\ training \in BOOLEAN
    /\ reward_discount \in Discounts
    /\ weights = 0
    /\ board = EmptyBoard
    /\ op = "__init__"
    /\ arg = None
    /\ raised = FALSE
    /\ ret = <<>>
    /\ nn_probs = <<>>
    /\ nn_qvalues = <<>>
    /\ probs = <<>>
    /\ fit_calls = <<>>
    /\ board_calls = <<>>
    /\ episode = <<>>

\* ----------------------------------------------------------------- actions
\* No result has been announced to the agent since the last new_game.
InPlay == Count(episode, "final_result") = 0

\* Mutant: new_game forgets to clear board_position_log.
new_game_KeepsSnapshots(s) ==
    /\ side' = s
    /\ action_log' = <<>>
    /\ next_max_log' = <<>>
    /\ values_log' = <<>>
    /\ op' = "new_game"
    /\ arg' = s
    /\ raised' = FALSE
    /\ ret' = <<>>
    /\ nn_probs' = <<>>
    /\ nn_qvalues' = <<>>
    /\ probs' = <<>>
    /\ fit_calls' = <<>>
    /\ board_calls' = <<>>
    /\ episode' = <<>>
    /\ UNCHANGED <<board_position_log, agent_params, weights, board>>

\* Mutant: new_game forgets to clear next_max_log.
new_game_KeepsNextMax(s) ==
    /\ side' = s
    /\ board_position_log' = <<>>
    /\ action_log' = <<>>
    /\ values_log' = <<>>
    /\ op' = "new_game"
    /\ arg' = s
    /\ raised' = FALSE
    /\ ret' = <<>>
    /\ nn_probs' = <<>>
    /\ nn_qvalues' = <<>>
    /\ probs' = <<>>
    /\ fit_calls' = <<>>
    /\ board_calls' = <<>>
    /\ episode' = <<>>
    /\ UNCHANGED <<next_max_log, agent_params, weights, board>>

new_game(s) ==
    /\ side' = s
    /\ board_position_log' = <<>>
    /\ action_log' = <<>>
    /\ next_max_log' = <<>>
    /\ values_log' = <<>>
    /\ op' = "new_game"
    /\ arg' = s
    /\ raised' = FALSE
    /\ ret' = <<>>
    /\ nn_probs' = <<>>
    /\ nn_qvalues' = <<>>
    /\ probs' = <<>>
    /\ fit_calls' = <<>>
    /\ board_calls' = <<>>
    /\ episode' = <<>>
    /\ UNCHANGED <<agent_params, weights, board>>

move(q) ==
    /\ side \in Sides
    /\ InPlay
    /\ ~GameOver(board)
    /\ ToMove(board) = side
    /\ LET p0 == Softmax(q)
           p == MaskIllegal(p0, board)
           m == argmax(p)
       IN  /\ board_position_log' =
                  snapshots_after_board_change(Append(board_position_log, board),
                                               BoardAfter(board, m, side))
           /\ nn_probs' = p0
           /\ nn_qvalues' = q
           /\ probs' = p
           /\ next_max_log' = NextMaxAfterMove(next_max_log, action_log, q, m)
           /\ action_log' = Append(action_log, m)
           /\ values_log' = Append(values_log, q)
           /\ board_calls' = <<<<m, side>>>>
           /\ board' = BoardAfter(board, m, side)
           /\ ret' = move_returns(BoardResult(board, m, side))
    /\ op' = "move"
    /\ arg' = None
    /\ raised' = FALSE
    /\ fit_calls' = <<>>
    /\ episode' = Append(episode, "move")
    /\ UNCHANGED <<side, agent_params, weights>>

final_result(result) ==
    /\ op' = "final_result"
    /\ arg' = result
    /\ ret' = <<>>
    /\ nn_probs' = <<>>
    /\ nn_qvalues' = <<>>
    /\ probs' = <<>>
    /\ board_calls' = <<>>
    /\ IF RaisesValueError(result, side)
       THEN /\ raised' = TRUE
            /\ fit_calls' = <<>>
            /\ UNCHANGED <<side, agent_logs, agent_params, weights, board, episode>>
       ELSE /\ Count(episode, "final_result") < MaxFinals
            /\ raised' = FALSE
            /\ next_max_log' = NextMaxAfterFinal(next_max_log, Reward(result, side))
            /\ episode' = Append(episode, "final_result")
            /\ IF runs_optimizer(training)
               THEN /\ fit_calls' =
                        <<[inputs |-> nn_input_batch(board_position_log, side),
                           targets |-> calculate_targets(values_log, action_log,
                                                         next_max_log', reward_discount)]>>
                    /\ values_log' = values_log_after_targets(values_log, action_log,
                                                              next_max_log', reward_discount)
                    /\ weights' = fit(weights)
               ELSE /\ fit_calls' = <<>>
                    /\ UNCHANGED <<values_log, weights>>
            /\ UNCHANGED <<side, board_position_log, action_log, agent_params, board>>

\* The other player puts its mark on an empty cell.
opponent_move(a) ==
    /\ side \in Sides
    /\ InPlay
    /\ ~GameOver(board)
    /\ ToMove(board) = other_side(side)
    /\ is_legal(board, a)
    /\ board' = BoardAfter(board, a, other_side(side))
    /\ board_position_log' = snapshots_after_board_change(board_position_log, board')
    /\ UNCHANGED <<side, action_log, next_max_log, values_log, agent_params, weights,
                   op, arg, raised, ret, move_locals, fit_calls, board_calls, episode>>

\* The game driver clears the board before the first move of a game.
board_reset ==
    /\ board_position_log = <<>>
    /\ board # EmptyBoard
    /\ board' = EmptyBoard
    /\ UNCHANGED <<side, agent_logs, agent_params, weights, op, arg, raised, ret,
                   move_locals, fit_calls, board_calls, episode>>

Next ==
    \/ \E s \in Sides : new_game(s)
    \/ \E q \in QVectors : move(q)
    \/ \E r \in GameResult : final_result(r)
    \/ \E a \in Actions : opponent_move(a)
    \/ board_reset

Spec == Init /\ [][Next]_vars

\* ------------------------------------------------------- steps and episodes
\* The length of the game so far, in moves of the agent.
GameLength == Len(action_log)

\* The board as it was when the last move call began.
LastSnapshot == board_position_log[Len(board_position_log)]

\* A step that is a call of new_game, of move, of final_result.
NewGameStep == op' = "new_game" /\ board' = board
MoveStep == episode' = Append(episode, "move")
FinalResultStep == op' = "final_result" /\ board' = board

\* The state right after the single final_result of an episode that began
\* with new_game and had at least one move.
EpisodeJustEnded ==
    /\ side \in Sides
    /\ op = "final_result"
    /\ ~raised
    /\ Count(episode, "final_result") = 1
    /\ GameLength >= 1

\* The reward the outcome stands for, for an agent playing side s.
MappedReward(outcome, s) ==
    IF outcome = DRAW THEN draw_value
    ELSE IF (outcome = CROSS_WIN /\ s = CROSS) \/ (outcome = NAUGHT_WIN /\ s = NAUGHT)
    THEN win_value
    ELSE loss_value

\* ------------------------------------------------------------------ claims
\* C1: bootstrapping alignment.  After new_game, L >= 1 moves and one
\* final_result with a valid outcome, next_max_log has exactly L entries;
\* entry i, for i in 0..L-2, is the Q-value, in the Q-vector predicted at
\* step i+1, of the action chosen at step i+1; entry L-1 is the reward
\* mapped from the outcome.
C1_BootstrappingAlignment ==
    EpisodeJustEnded =>
        /\ Len(next_max_log) = GameLength
        /\ \A i \in 0 .. (GameLength - 2) :
              next_max_log[i + 1] = values_log[i + 2][action_log[i + 2] + 1]
        /\ next_max_log[GameLength] = MappedReward(arg, side)

\* C1 witness: a two-move episode has ended, and the bootstrapped entry is
\* not the Q-value of every action of the second step.
C1_Witness ==
    /\ EpisodeJustEnded
    /\ GameLength = 2
    /\ \E a \in Actions : values_log[2][a + 1] # next_max_log[1]
    /\ next_max_log[2] # next_max_log[1]

\* C2: log lengths.  In an episode run as new_game, moves, at most one
\* final_result: the action, value and snapshot logs have the same length;
\* in play, next_max_log is one entry behind once a move was made and all
\* four logs are empty before; next_max_log is as long as action_log only
\* after final_result appended the terminal reward.
C2_LogLengths ==
    (side \in Sides /\ Count(episode, "final_result") <= 1) =>
        /\ Len(action_log) = Len(values_log)
        /\ Len(values_log) = Len(board_position_log)
        /\ (InPlay /\ GameLength >= 1) => Len(next_max_log) = GameLength - 1
        /\ (InPlay /\ GameLength = 0) =>
              /\ board_position_log = <<>>
              /\ action_log = <<>>
              /\ next_max_log = <<>>
              /\ values_log = <<>>
        /\ (GameLength >= 1 /\ Len(next_max_log) = GameLength) => ~InPlay
        /\ (~InPlay /\ GameLength >= 1) => Len(next_max_log) = GameLength

\* C2 witness: two moves into a game, next_max_log holds one entry.
C2_Witness ==
    /\ side \in Sides
    /\ InPlay
    /\ GameLength = 2
    /\ Len(next_max_log) = 1
    /\ Len(values_log) = 2
    /\ Len(board_position_log) = 2

\* C3: selection legality.  When the board had a legal action and the
\* approximator's probabilities were all >= 0, the action move selected, and
\* asked the board to play, is a legal action of that board.
C3_SelectionLegal ==
    (/\ op = "move"
     /\ HasLegal(LastSnapshot)
     /\ \A a \in Actions : nn_probs[a + 1] >= 0) =>
        /\ action_log[GameLength] \in Actions
        /\ is_legal(LastSnapshot, action_log[GameLength])
        /\ board_calls = <<<<action_log[GameLength], side>>>>

\* C3 witness: an illegal action had the largest probability before the
\* masking, and the selected action is legal.
C3_Witness ==
    /\ op = "move"
    /\ \E a \in Actions :
          /\ ~is_legal(LastSnapshot, a)
          /\ \A b \in Actions : nn_probs[b + 1] <= nn_probs[a + 1]
          /\ \E b \in Actions : nn_probs[b + 1] < nn_probs[a + 1]
    /\ is_legal(LastSnapshot, action_log[GameLength])

\* The coordinates at which target i of the batch differs from the logged
\* Q-vector of step i.
ChangedCoordinates(i) ==
    {c \in Actions : fit_calls[1].targets[i + 1][c + 1] # values_log[i + 1][c + 1]}

\* Target i has the discounted next-state value at the action of step i.
TargetValueAt(i) ==
    fit_calls[1].targets[i + 1][action_log[i + 1] + 1] * Scale
        = reward_discount * next_max_log[i + 1]

\* C4 as stated: every target differs from the logged Q-vector at exactly
\* one coordinate, action_log[i], which holds reward_discount *
\* next_max_log[i].
C4_ExactlyOneCoordinate ==
    fit_calls # <<>> =>
        /\ Len(fit_calls[1].targets) = GameLength
        /\ \A i \in 0 .. (GameLength - 1) :
              /\ ChangedCoordinates(i) = {action_log[i + 1]}
              /\ TargetValueAt(i)

\* C4 amended: every target differs from the logged Q-vector at no
\* coordinate other than action_log[i], and holds reward_discount *
\* next_max_log[i] there; it differs nowhere when the logged Q-value of the
\* action already equals that value.
C4_TargetConstruction ==
    fit_calls # <<>> =>
        /\ Len(fit_calls[1].targets) = GameLength
        /\ \A i \in 0 .. (GameLength - 1) :
              /\ ChangedCoordinates(i) \subseteq {action_log[i + 1]}
              /\ TargetValueAt(i)
              /\ (ChangedCoordinates(i) = {}) <=>
                    (values_log[i + 1][action_log[i + 1] + 1] * Scale
                        = reward_discount * next_max_log[i + 1])

\* C4 witness: a batch of two targets, the first changed at the action of
\* its step, the second equal to the logged Q-vector.
C4_Witness ==
    /\ fit_calls # <<>>
    /\ GameLength = 2
    /\ ChangedCoordinates(0) = {action_log[1]}
    /\ ChangedCoordinates(1) = {}

\* C5: reward mapping.  For an agent playing CROSS or NAUGHT, final_result
\* appends win_value for a win of its own side, loss_value for a win of the
\* other side and draw_value for a draw, whatever its side.
C5_RewardMapping ==
    (op = "final_result" /\ ~raised /\ side \in Sides) =>
        LET reward == next_max_log[Len(next_max_log)] IN
        /\ (arg = CROSS_WIN /\ side = CROSS) => reward = win_value
        /\ (arg = NAUGHT_WIN /\ side = NAUGHT) => reward = win_value
        /\ (arg = CROSS_WIN /\ side = NAUGHT) => reward = loss_value
        /\ (arg = NAUGHT_WIN /\ side = CROSS) => reward = loss_value
        /\ arg = DRAW => reward = draw_value

\* C5 witness: NAUGHT is told that CROSS won and logs loss_value.
C5_Witness ==
    /\ op = "final_result"
    /\ ~raised
    /\ side = NAUGHT
    /\ arg = CROSS_WIN
    /\ next_max_log[Len(next_max_log)] = loss_value

\* C6: fit once per episode.  With training enabled, the final_result that
\* ends an episode of L moves invokes fit exactly once, with L feature
\* vectors and L targets, pair i being the encoding of snapshot i and target
\* i; move and new_game never invoke fit and leave the weights unchanged.
C6_FitOncePerEpisode ==
    [][/\ (/\ episode' = Append(episode, "final_result")
           /\ InPlay
           /\ side \in Sides
           /\ training) =>
              /\ Len(fit_calls') = 1
              /\ Len(fit_calls'[1].inputs) = GameLength
              /\ Len(fit_calls'[1].targets) = GameLength
              /\ \A i \in 0 .. (GameLength - 1) :
                    /\ fit_calls'[1].inputs[i + 1]
                          = board_state_to_nn_input(board_position_log[i + 1], side)
                    /\ fit_calls'[1].targets[i + 1]
                          = [values_log[i + 1] EXCEPT ![action_log[i + 1] + 1] =
                                Mul(reward_discount, next_max_log'[i + 1])]
              /\ weights' # weights
       /\ (MoveStep \/ NewGameStep) =>
              /\ fit_calls' = <<>>
              /\ weights' = weights
      ]_vars

\* C6 witness: a trained two-move episode has ended with one fit call on a
\* batch of two pairs.
C6_Witness ==
    /\ EpisodeJustEnded
    /\ training
    /\ GameLength = 2
    /\ Len(fit_calls) = 1
    /\ Len(fit_calls[1].inputs) = 2
    /\ Len(fit_calls[1].targets) = 2
    /\ weights = 1

\* C7 as stated: with training disabled no call ever invokes fit and the
\* weights never change, and after every final_result the mapped reward is
\* the last entry of next_max_log and len(next_max_log) = len(action_log).
C7_AsStated ==
    ~training =>
        /\ fit_calls = <<>>
        /\ weights = 0
        /\ (op = "final_result" /\ ~raised) =>
              /\ next_max_log[Len(next_max_log)] = MappedReward(arg, side)
              /\ Len(next_max_log) = Len(action_log)

\* C7 amended: with training disabled no call ever invokes fit and the
\* weights never change, and after every final_result the mapped reward is
\* the last entry of next_max_log; len(next_max_log) = len(action_log) after
\* the first final_result of an episode with at least one move, and
\* next_max_log is the longer log after any other final_result.
C7_TrainingDisabled ==
    ~training =>
        /\ fit_calls = <<>>
        /\ weights = 0
        /\ (op = "final_result" /\ ~raised) =>
              /\ next_max_log[Len(next_max_log)] = MappedReward(arg, side)
              /\ EpisodeJustEnded => Len(next_max_log) = Len(action_log)
              /\ ~EpisodeJustEnded => Len(next_max_log) > Len(action_log)

\* C7 witness: an untrained two-move episode has ended; the logs are
\* aligned and fit was not called.
C7_Witness ==
    /\ ~training
    /\ EpisodeJustEnded
    /\ GameLength = 2
    /\ Len(next_max_log) = 2
    /\ next_max_log[2] = win_value
    /\ fit_calls = <<>>

\* C8: invalid game result.  final_result with an outcome other than
\* CROSS_WIN, NAUGHT_WIN, DRAW raises before it appends anything and before
\* fit: the four logs and the weights are unchanged; and with side CROSS or
\* NAUGHT no call with one of these three outcomes raises.
C8_InvalidResultRaises ==
    [][FinalResultStep =>
          /\ arg' \notin {CROSS_WIN, NAUGHT_WIN, DRAW} =>
                /\ raised'
                /\ UNCHANGED <<board_position_log, action_log, next_max_log, values_log>>
                /\ weights' = weights
                /\ fit_calls' = <<>>
          /\ (side \in Sides /\ arg' \in {CROSS_WIN, NAUGHT_WIN, DRAW}) => ~raised'
      ]_vars

\* C8 witness: mid-game, a training agent was given the in-progress result
\* and raised.
C8_Witness ==
    /\ op = "final_result"
    /\ arg = NOT_FINISHED
    /\ raised
    /\ training
    /\ side \in Sides
    /\ GameLength >= 1
    /\ Len(next_max_log) = GameLength - 1

\* C9: new_game reset.  From any state, new_game(side) leaves side equal to
\* its argument and the four logs empty, and changes neither the weights nor
\* the parameters of the agent.
C9_NewGameResets ==
    [][NewGameStep =>
          /\ side' = arg'
          /\ side' \in Sides
          /\ board_position_log' = <<>>
          /\ action_log' = <<>>
          /\ next_max_log' = <<>>
          /\ values_log' = <<>>
          /\ weights' = weights
          /\ UNCHANGED <<training, reward_discount>>
      ]_vars

\* C9 witness: new_game was called after a trained game; the logs are empty
\* and the weights are the trained ones.
C9_Witness ==
    /\ op = "new_game"
    /\ side = NAUGHT
    /\ weights = 1
    /\ board # EmptyBoard
    /\ board_position_log = <<>>
    /\ action_log = <<>>
    /\ next_max_log = <<>>
    /\ values_log = <<>>

\* C10: masking.  After the masking step of move, the probability of every
\* action the board reports illegal is -1 and the probability of every legal
\* action is the value the approximator returned for it.
C10_Masking ==
    op = "move" =>
        /\ Len(probs) = BOARD_SIZE
        /\ \A a \in Actions :
              /\ ~is_legal(LastSnapshot, a) => probs[a + 1] = -1
              /\ is_legal(LastSnapshot, a) => probs[a + 1] = nn_probs[a + 1]

\* C10 witness: a move on a board with an illegal and a legal action.
C10_Witness ==
    /\ op = "move"
    /\ \E a, b \in Actions :
          /\ ~is_legal(LastSnapshot, a)
          /\ nn_probs[a + 1] > 0
          /\ probs[a + 1] = -1
          /\ is_legal(LastSnapshot, b)
          /\ probs[b + 1] = nn_probs[b + 1]

\* The actions whose masked probability is the largest of the last move.
TopActions == {a \in Actions : \A b \in Actions : probs[b + 1] <= probs[a + 1]}

\* C11: tie-break.  The action move selects is the lowest index among the
\* actions that share the largest masked probability; the selection is so
\* fixed by the board state and the approximator's output alone.
C11_TieBreak ==
    op = "move" =>
        /\ action_log[GameLength] \in TopActions
        /\ \A a \in TopActions : action_log[GameLength] <= a

\* C11 witness: two legal actions tied for the largest masked probability
\* and the lower one was selected.
C11_Witness ==
    /\ op = "move"
    /\ \E a, b \in TopActions :
          /\ a < b
          /\ is_legal(LastSnapshot, a)
          /\ is_legal(LastSnapshot, b)
          /\ action_log[GameLength] = a

\* Vector v is the partition of the cells of state into the blocks (own
\* pieces, opponent pieces, empty cells) for an agent playing side s.
IsPartitionEncoding(v, state, s) ==
    LET n == Len(state)
        block(k) == [i \in 1 .. n |-> v[(k - 1) * n + i]]
    IN  /\ Len(v) = 3 * n
        /\ \A i \in 1 .. (3 * n) : v[i] \in {0, 1}
        /\ \A i \in 1 .. n :
              /\ block(1)[i] + block(2)[i] + block(3)[i] = 1
              /\ block(1)[i] = 1 <=> state[i] = s
              /\ block(2)[i] = 1 <=> state[i] \in (Sides \ {s})
              /\ block(3)[i] = 1 <=> state[i] = EMPTY
        /\ SumSeq(block(1)) = Cardinality({i \in 1 .. n : state[i] = s})
        /\ SumSeq(block(2)) = Cardinality({i \in 1 .. n : state[i] \in (Sides \ {s})})
        /\ SumSeq(block(3)) = Cardinality({i \in 1 .. n : state[i] = EMPTY})

\* C12: encoder partition.  For either side, the encoding of the board, and
\* every feature vector passed to fit for a logged snapshot, is a 0/1 vector
\* of length 3 * BOARD_SIZE made of the blocks (own, opponent, empty), with
\* every cell set in exactly one block and each block summing to the number
\* of cells of its kind.
C12_EncoderPartition ==
    /\ \A s \in Sides : IsPartitionEncoding(board_state_to_nn_input(board, s), board, s)
    /\ (fit_calls # <<>> /\ side \in Sides) =>
          /\ Len(fit_calls[1].inputs) = Len(board_position_log)
          /\ \A k \in 1 .. Len(board_position_log) :
                /\ Len(fit_calls[1].inputs[k]) = 3 * BOARD_SIZE
                /\ IsPartitionEncoding(fit_calls[1].inputs[k], board_position_log[k], side)

\* C12 witness: a feature vector passed to fit encodes a snapshot that holds
\* an own piece, an opponent piece and an empty cell.
C12_Witness ==
    /\ fit_calls # <<>>
    /\ side \in Sides
    /\ \E k \in 1 .. Len(board_position_log) :
          /\ \E i \in 1 .. BOARD_SIZE : board_position_log[k][i] = side
          /\ \E i \in 1 .. BOARD_SIZE : board_position_log[k][i] = other_side(side)
          /\ \E i \in 1 .. BOARD_SIZE : board_position_log[k][i] = EMPTY
          /\ SumSeq(fit_calls[1].inputs[k]) = BOARD_SIZE

\* What the board answers to the move that took it from state before to
\* state after, made by side s.
BoardAnswer(before, after, s) ==
    IF \E i \in 1 .. (BOARD_SIZE - 1) : after[i] # EMPTY /\ after[i] = after[i + 1]
    THEN <<IF s = CROSS THEN CROSS_WIN ELSE NAUGHT_WIN, TRUE>>
    ELSE IF \A i \in 1 .. BOARD_SIZE : after[i] # EMPTY
    THEN <<DRAW, TRUE>>
    ELSE <<NOT_FINISHED, FALSE>>

\* C13: move delegation.  Every move call logs the snapshot of the board as
\* it was, the selected action and the Q-vector, calls board.move exactly
\* once, with that action and the agent's side, and returns the (result,
\* finished) pair of the board unchanged.
C13_MoveDelegation ==
    [][MoveStep =>
          /\ Len(board_calls') = 1
          /\ board_calls'[1] = <<action_log'[Len(action_log')], side>>
          /\ side' = side
          /\ Len(board_position_log') = Len(board_position_log) + 1
          /\ Len(action_log') = Len(action_log) + 1
          /\ Len(values_log') = Len(values_log) + 1
          /\ board_position_log'[Len(board_position_log')] = board
          /\ values_log'[Len(values_log')] = nn_qvalues'
          /\ board' = [board EXCEPT ![action_log'[Len(action_log')] + 1] = side]
          /\ ret' = BoardAnswer(board, board', side)
      ]_vars

\* C13 witness: a move ended the game with a win and returned it.
C13_Witness ==
    /\ op = "move"
    /\ Len(board_calls) = 1
    /\ board_calls[1] = <<action_log[GameLength], side>>
    /\ ret = <<IF side = CROSS THEN CROSS_WIN ELSE NAUGHT_WIN, TRUE>>

\* C14: terminal target.  After the final_result that ends a trained
\* episode of L moves, the target of step L-1 holds, at coordinate
\* action_log[L-1], the mapped reward itself (win_value, loss_value or
\* draw_value), whatever reward_discount is.
C14_TerminalTargetIsReward ==
    (EpisodeJustEnded /\ fit_calls # <<>>) =>
        fit_calls[1].targets[GameLength][action_log[GameLength] + 1]
            = MappedReward(arg, side)

\* The probabilities of the last move keep the order of its Q-values.
OrderPreserving ==
    \A a, b \in Actions :
        /\ nn_qvalues[a + 1] < nn_qvalues[b + 1] => nn_probs[a + 1] < nn_probs[b + 1]
        /\ nn_qvalues[a + 1] = nn_qvalues[b + 1] => nn_probs[a + 1] = nn_probs[b + 1]

C16_ValuesLogIsolated ==
    [][/\ MoveStep =>
              /\ Len(values_log') = Len(values_log) + 1
              /\ \A a \in Actions :
                    values_log'[Len(values_log')][a + 1] = nn_qvalues'[a + 1]
       /\ ~NewGameStep =>
              /\ Len(values_log') >= Len(values_log)
              /\ \A i \in 1 .. Len(values_log) : values_log'[i] = values_log[i]
      ]_vars

\* C16 witness: after training on a two-move game, the first logged
\* Q-vector differs from its target and holds, for an action that was
\* illegal at the second move, a Q-value that is not the masked -1.
C16_Witness ==
    /\ fit_calls # <<>>
    /\ GameLength = 2
    /\ fit_calls[1].targets[1] # values_log[1]
    /\ \E a \in Actions :
          /\ ~is_legal(board_position_log[2], a)
          /\ values_log[2][a + 1] = 100

\* The number of moves the agent made since the most recent new_game.
MovesThisEpisode == Count(episode, "move")

\* C17: episode isolation.  Whatever episodes came before, ended or
\* abandoned, the batch a final_result passes to fit holds one pair for each
\* move made since the most recent new_game and nothing else: pair k is the
\* encoding of the k-th snapshot of this episode and the target built from
\* the k-th action, Q-vector and next-state value of this episode.
C17_EpisodeIsolation ==
    fit_calls # <<>> =>
        /\ Len(fit_calls[1].inputs) = MovesThisEpisode
        /\ Len(fit_calls[1].targets) = MovesThisEpisode
        /\ Len(board_position_log) = MovesThisEpisode
        /\ Len(action_log) = MovesThisEpisode
        /\ Len(values_log) = MovesThisEpisode
        /\ Len(next_max_log) + (IF MovesThisEpisode > 0 THEN 1 ELSE 0)
              = MovesThisEpisode + Count(episode, "final_result")
        /\ \A k \in 1 .. MovesThisEpisode :
              /\ fit_calls[1].inputs[k]
                    = board_state_to_nn_input(board_position_log[k], side)
              /\ \A a \in Actions \ {action_log[k]} :
                    fit_calls[1].targets[k][a + 1] = values_log[k][a + 1]
              /\ fit_calls[1].targets[k][action_log[k] + 1] * Scale
                    = reward_discount * next_max_log[k]
              /\ k < MovesThisEpisode =>
                    next_max_log[k] = values_log[k + 1][action_log[k + 1] + 1]

\* C17 witness: a one-move episode is trained on after an earlier fit, on a
\* board that still holds the marks of an earlier game.
C17_Witness ==
    /\ fit_calls # <<>>
    /\ training
    /\ side = CROSS
    /\ MovesThisEpisode = 1
    /\ Count(episode, "final_result") = 1
    /\ weights = 0
    /\ Len(fit_calls[1].inputs) = 1
    /\ board_position_log[1] # EmptyBoard

\* C18: the snapshot precedes the move.  The snapshot a move logs is the
\* board as it was before the move; the cell of the logged action is EMPTY
\* in the snapshot of its step whenever that board had a legal action; and
\* no later step other than new_game, by either player, changes a snapshot
\* already logged.
C18_SnapshotPrecedesMove ==
    [][/\ MoveStep =>
              /\ Len(board_position_log') = Len(board_position_log) + 1
              /\ board_position_log'[Len(board_position_log')] = board
       /\ ~NewGameStep =>
              \A i \in 1 .. Len(board_position_log) :
                  board_position_log'[i] = board_position_log[i]
       /\ \A i \in 1 .. Len(action_log') :
              HasLegal(board_position_log'[i]) =>
                  board_position_log'[i][action_log'[i] + 1] = EMPTY
      ]_vars

\* C18 witness: two moves into a game, both snapshots show the cell of
\* their action empty, and the board now holds a mark there.
C18_Witness ==
    /\ op = "move"
    /\ GameLength = 2
    /\ \A i \in 1 .. 2 :
          /\ board_position_log[i][action_log[i] + 1] = EMPTY
          /\ board[action_log[i] + 1] = side
    /\ board_position_log[1] # board_position_log[2]

\* A final_result call that did not raise.
SuccessfulFinalResultStep == FinalResultStep /\ ~raised'

\* A final_result call that did not raise appends exactly one entry to
\* next_max_log and leaves side and the other three logs unchanged.
FinalResultFrame ==
    SuccessfulFinalResultStep =>
        /\ Len(next_max_log') = Len(next_max_log) + 1
        /\ \A i \in 1 .. Len(next_max_log) : next_max_log'[i] = next_max_log[i]
        /\ UNCHANGED <<side, board_position_log, action_log, values_log>>

\* C19 as stated: the frame of final_result, and after the second
\* final_result of an episode len(next_max_log) = len(action_log) + 1.
C19_AsStated ==
    [][/\ FinalResultFrame
       /\ (/\ SuccessfulFinalResultStep
           /\ side \in Sides
           /\ Count(episode, "final_result") = 1) =>
              Len(next_max_log') = Len(action_log') + 1
      ]_vars

\* C19 amended: the frame of final_result, with training or without; after
\* the second final_result of an episode len(next_max_log) =
\* len(action_log) + 1 if a move was made in the episode, and
\* len(next_max_log) = 2 with an empty action_log if none was.
C19_FinalResultFrame ==
    [][/\ FinalResultFrame
       /\ (/\ SuccessfulFinalResultStep
           /\ side \in Sides
           /\ Count(episode, "final_result") = 1) =>
              /\ GameLength >= 1 => Len(next_max_log') = Len(action_log') + 1
              /\ GameLength = 0 => (Len(next_max_log') = 2 /\ action_log' = <<>>)
      ]_vars

\* C19 witness: a trained two-move episode was given its result twice;
\* next_max_log holds three entries.
C19_Witness ==
    /\ op = "final_result"
    /\ ~raised
    /\ training
    /\ Count(episode, "final_result") = 2
    /\ GameLength = 2
    /\ Len(next_max_log) = 3
    /\ Len(values_log) = 2
    /\ Len(board_position_log) = 2

====
